---- MODULE Spec2Model ----
(***************************************************************************)
(* A model of QueryBuilder (src/src/index.ts), the fluent builder of an    *)
(* elasticsearch query document.                                           *)
(*                                                                         *)
(* JavaScript values are modelled as follows.                              *)
(*   - an object is a function from its own keys to their values; a key    *)
(*     that is not in the DOMAIN is a missing (undefined) property;        *)
(*   - an array is Arr(items), items a sequence; the values that may sit   *)
(*     where an array is expected and are no array are JsNull and JsStr;   *)
(*   - a string that the code only copies (a key, an attribute, a sort     *)
(*     direction) is a TLA+ string; a string that the code concatenates    *)
(*     (a clause value) is the sequence of its characters;                 *)
(*   - the document lives in a heap cell [order, props]: props is the      *)
(*     object, order is the insertion order of its own keys, which is the  *)
(*     order JSON.stringify walks them in;                                 *)
(*   - a JSON text is the sequence of its tokens (their concatenation is   *)
(*     the text).                                                          *)
(***************************************************************************)
EXTENDS Integers, Sequences, FiniteSets, TLC

VARIABLES
    heap,          \* the objects that exist: object id -> [order, props]
    queryObject,   \* this.queryObject: the id of the builder's document
    arg,           \* the constructor's argument: an object id, or Undefined
    nCalls,        \* number of method calls made so far (returned or thrown)
    last,          \* the most recent call: [op, ..arguments.., threw]
    pre,           \* the heap as it was before the most recent call
    shouldCalls,   \* the calls that appended to should and returned, in order
    mustCalls,     \* the calls that appended to must and returned, in order
    sortCalls,     \* the sort calls that returned, in order
    minCalls,      \* the minimumShouldMatch calls that returned, in order
    sizeCalls,     \* the size calls that returned, in order
    fromCalls,     \* the from calls that returned, in order
    built,         \* what the most recent build() returned (Undefined: none yet)
    shown          \* <<>>, or the most recent toString() result with the
                   \* document it was computed from: <<[ret, at]>>

vars == <<heap, queryObject, arg, nCalls, last, pre, shouldCalls, mustCalls,
          sortCalls, minCalls, sizeCalls, fromCalls, built, shown>>

logs == <<shouldCalls, mustCalls, sortCalls, minCalls, sizeCalls, fromCalls>>

(***************************************************************************)
(* Bounds of the model and the inputs the calls draw from.                 *)
(***************************************************************************)
MaxCalls == 3
MaxCallsMalformed == 2
MaxCallsMutators == 3

Undefined == 0

\* (key, value) arguments: a plain value, and one that already carries the
\* wildcard token at both ends
KeyValues == {<<"a", <<"x">>>>, <<"type", <<"*", "x", "*">>>>}
Types == {<<"u">>}
\* sort's arguments: the attribute, and <<>> (direction omitted) or <<direction>>
SortArgs == {<<"rank", <<>>>>, <<"rank", <<"asc">>>>, <<"date", <<>>>>, <<"date", <<"desc">>>>}
Counts == {-1, 0}
TermA == [key |-> "a", value |-> <<"1">>]
TermB == [key |-> "b", value |-> <<"2">>]
TermLists == {<<>>, <<TermA, TermB>>}

\* the argument lists of a parameter that has a default: omitted, or given
OptArgs(S) == {<<>>} \cup {<<x>> : x \in S}

(***************************************************************************)
(* JavaScript values.                                                      *)
(***************************************************************************)
Arr(items) == [type |-> "array", items |-> items]
JsNull == [type |-> "null"]
JsStr == [type |-> "string", chars |-> <<"n", "o">>]

Has(o, k) == k \in DOMAIN o

\* o[k] = v: an own key keeps its place, a new key is added
SetProp(o, k, v) == (k :> v) @@ o

\* x.push is callable exactly when x is an array
CanPush(x) == x.type = "array"

NewId(h) == Cardinality(DOMAIN h) + 1

Ok(h, ret) == [threw |-> FALSE, heap |-> h, ret |-> ret]
Throw(h) == [threw |-> TRUE, heap |-> h, ret |-> Undefined]

(***************************************************************************)
(* The clauses the methods build.                                          *)
(***************************************************************************)
Clause(kind, key, value) == (kind :> (key :> value))

\* '*' + value + '*'
Wrap(value) == <<"*">> \o value \o <<"*">>

\* terms.forEach(term => shouldQuery.bool.should.push({match: ...})), from
\* the i-th term on, items being what was pushed so far
RECURSIVE ForEachPush(_, _, _)
ForEachPush(items, terms, i) ==
    IF i > Len(terms) THEN items
    ELSE ForEachPush(Append(items, Clause("match", terms[i].key, terms[i].value)),
                     terms, i + 1)

ShouldQuery(terms) == ("bool" :> ("should" :> Arr(ForEachPush(<<>>, terms, 1))))

SortEntry(attribute, direction) == (attribute :> ("order" :> direction))

(***************************************************************************)
(* The document the constructor creates when it is given none.             *)
(***************************************************************************)
EmptyQueryObject ==
    [order |-> <<"query", "sort">>,
     props |-> ("query" :> ("bool" :> ("should" :> Arr(<<>>) @@ "must" :> Arr(<<>>)))
                @@ "sort" :> Arr(<<>>))]

\* a constructor whose default document is already paged
constructorPaged(h, query) ==
    IF query # Undefined
    THEN [heap |-> h, queryObject |-> query]
    ELSE [heap |-> (NewId(h) :>
                      [order |-> Append(EmptyQueryObject.order, "size"),
                       props |-> ("size" :> 20) @@ EmptyQueryObject.props]) @@ h,
          queryObject |-> NewId(h)]

\* constructor(query?): h holds the caller's objects, query is one of them or
\* Undefined
constructor(h, query) ==
    IF query # Undefined
    THEN [heap |-> h, queryObject |-> query]
    ELSE [heap |-> (NewId(h) :> EmptyQueryObject) @@ h, queryObject |-> NewId(h)]

(***************************************************************************)
(* The methods, as functions of the heap h and of this.queryObject (qo).   *)
(* Each returns [threw, heap, ret]: a TypeError leaves the heap as it was  *)
(* at the point of the throw. A mutator returns the builder itself (This). *)
(***************************************************************************)
This == "this"

\* this.queryObject.query.bool[list].push(clause)
PushClause(h, qo, list, clause) ==
    LET q == h[qo].props
    IN  IF /\ Has(q, "query")
           /\ Has(q.query, "bool")
           /\ Has(q.query.bool, list)
           /\ CanPush(q.query.bool[list])
        THEN Ok([h EXCEPT ![qo].props.query.bool[list].items = Append(@, clause)], This)
        ELSE Throw(h)

\* this.queryObject[key] = n
SetTop(h, qo, key, n) ==
    LET cell == h[qo]
    IN  Ok([h EXCEPT ![qo] =
               [order |-> IF Has(cell.props, key) THEN cell.order
                          ELSE Append(cell.order, key),
                props |-> SetProp(cell.props, key, n)]], This)

\* build returning a copy of the document
buildCopy(h, qo) == Ok((NewId(h) :> h[qo]) @@ h, NewId(h))

build(h, qo) == Ok(h, qo)

shouldPrefix(h, qo, key, value) == PushClause(h, qo, "should", Clause("prefix", key, value))

\* shouldTerm leaving out a clause the list already holds
shouldTermOnce(h, qo, key, value) ==
    LET r == PushClause(h, qo, "should", Clause("term", key, value))
        items == h[qo].props.query.bool.should.items
    IN  IF ~r.threw /\ \E i \in 1..Len(items) : items[i] = Clause("term", key, value)
        THEN Ok(h, This)
        ELSE r

shouldTerm(h, qo, key, value) == PushClause(h, qo, "should", Clause("term", key, value))

shouldWildcard(h, qo, key, value) ==
    PushClause(h, qo, "should", Clause("wildcard", key, Wrap(value)))

shouldMatch(h, qo, key, value) == PushClause(h, qo, "should", Clause("match", key, value))

\* mustWildcard wrapping only a value that does not carry the tokens yet
mustWildcardOnce(h, qo, key, value) ==
    PushClause(h, qo, "must",
               Clause("wildcard", key,
                      IF Len(value) >= 2 /\ Head(value) = "*" /\ value[Len(value)] = "*"
                      THEN value ELSE Wrap(value)))

mustWildcard(h, qo, key, value) ==
    PushClause(h, qo, "must", Clause("wildcard", key, Wrap(value)))

mustMatch(h, qo, key, value) == PushClause(h, qo, "must", Clause("match", key, value))

\* mustShouldMatch pushing every match clause to must itself
mustShouldMatchFlat(h, qo, terms) ==
    LET q == h[qo].props
    IN  IF Has(q, "query") /\ Has(q.query, "bool") /\ Has(q.query.bool, "must")
           /\ CanPush(q.query.bool.must)
        THEN Ok([h EXCEPT ![qo].props.query.bool.must.items =
                    ForEachPush(@, terms, 1)], This)
        ELSE Throw(h)

\* mustShouldMatch returning early when there are no terms
mustShouldMatchSkipEmpty(h, qo, terms) ==
    IF terms = <<>> THEN Ok(h, This) ELSE PushClause(h, qo, "must", ShouldQuery(terms))

mustShouldMatch(h, qo, terms) == PushClause(h, qo, "must", ShouldQuery(terms))

\* mustTerm assigning a new list instead of pushing
mustTermReplace(h, qo, key, value) ==
    LET r == PushClause(h, qo, "must", Clause("term", key, value))
    IN  IF r.threw THEN r
        ELSE Ok([h EXCEPT ![qo].props.query.bool.must.items =
                    <<Clause("term", key, value)>>], This)

mustTerm(h, qo, key, value) == PushClause(h, qo, "must", Clause("term", key, value))

ofType(h, qo, type) == PushClause(h, qo, "must", Clause("term", "type", type))

mustPrefix(h, qo, key, value) == PushClause(h, qo, "must", Clause("prefix", key, value))

\* this.queryObject.query.bool.minimum_should_match = count
minimumShouldMatch(h, qo, count) ==
    LET q == h[qo].props
    IN  IF Has(q, "query") /\ Has(q.query, "bool")
        THEN Ok([h EXCEPT ![qo].props.query.bool =
                    SetProp(@, "minimum_should_match", count)], This)
        ELSE Throw(h)

DefaultDirection == "desc"

\* sort creating the sort list when the document has none
sortLenient(h, qo, attribute, dir) ==
    LET direction == IF dir = <<>> THEN DefaultDirection ELSE dir[1]
        q == h[qo].props
    IN  IF Has(q, "sort") /\ CanPush(q.sort)
        THEN Ok([h EXCEPT ![qo].props.sort.items =
                    Append(@, SortEntry(attribute, direction))], This)
        ELSE Ok([h EXCEPT ![qo] =
                    [order |-> IF Has(q, "sort") THEN @.order ELSE Append(@.order, "sort"),
                     props |-> SetProp(q, "sort", Arr(<<SortEntry(attribute, direction)>>))]],
                This)

\* sort keeping one entry per attribute: a later call replaces the earlier one
sortReplace(h, qo, attribute, dir) ==
    LET direction == IF dir = <<>> THEN DefaultDirection ELSE dir[1]
        q == h[qo].props
        kept == SelectSeq(q.sort.items, LAMBDA e : ~Has(e, attribute))
    IN  IF Has(q, "sort") /\ CanPush(q.sort)
        THEN Ok([h EXCEPT ![qo].props.sort.items =
                    Append(kept, SortEntry(attribute, direction))], This)
        ELSE Throw(h)

\* sort(attribute, direction = 'desc'): dir is <<>> when the argument is omitted
sort(h, qo, attribute, dir) ==
    LET direction == IF dir = <<>> THEN DefaultDirection ELSE dir[1]
        q == h[qo].props
    IN  IF Has(q, "sort") /\ CanPush(q.sort)
        THEN Ok([h EXCEPT ![qo].props.sort.items =
                    Append(@, SortEntry(attribute, direction))], This)
        ELSE Throw(h)

DefaultSize == 20
DefaultFrom == 0

\* size starting again from the first page: it resets an offset already set
sizeRewinds(h, qo, a) ==
    LET r == SetTop(h, qo, "size", IF a = <<>> THEN DefaultSize ELSE a[1])
    IN  IF Has(h[qo].props, "from") THEN SetTop(r.heap, qo, "from", DefaultFrom) ELSE r

\* size refusing a negative size
sizeClamped(h, qo, a) ==
    LET n == IF a = <<>> THEN DefaultSize ELSE a[1]
    IN  SetTop(h, qo, "size", IF n < 0 THEN 0 ELSE n)

\* size(size = 20): a is <<>> when the argument is omitted
size(h, qo, a) == SetTop(h, qo, "size", IF a = <<>> THEN DefaultSize ELSE a[1])

\* from(from = 0)
from(h, qo, a) == SetTop(h, qo, "from", IF a = <<>> THEN DefaultFrom ELSE a[1])

(***************************************************************************)
(* JSON.stringify(this.queryObject), as the sequence of the text's tokens. *)
(* Own keys are written in insertion order; the keys of query.bool are     *)
(* should, must, minimum_should_match, the order in which the constructor  *)
(* and minimumShouldMatch create them.                                     *)
(***************************************************************************)
Digit(d) == <<"0", "1", "2", "3", "4", "5", "6", "7", "8", "9">>[d + 1]

RECURSIVE Digits(_)
Digits(n) == IF n < 10 THEN <<Digit(n)>> ELSE Digits(n \div 10) \o <<Digit(n % 10)>>

StringifyNumber(n) == IF n < 0 THEN <<"-">> \o Digits(-n) ELSE Digits(n)

\* a string held whole, and a string held as its characters
Quote(str) == <<"\"", str, "\"">>
QuoteChars(chars) == <<"\"">> \o chars \o <<"\"">>

RECURSIVE Join(_)
Join(parts) ==
    IF parts = <<>> THEN <<>>
    ELSE IF Len(parts) = 1 THEN parts[1]
    ELSE parts[1] \o <<",">> \o Join(Tail(parts))

Member(key, text) == Quote(key) \o <<":">> \o text
Braces(parts) == <<"{">> \o Join(parts) \o <<"}">>
Brackets(parts) == <<"[">> \o Join(parts) \o <<"]">>

OnlyKey(o) == CHOOSE k \in DOMAIN o : TRUE

\* the keys of seq that o has, in seq's order
RECURSIVE OwnKeys(_, _)
OwnKeys(seq, o) ==
    IF seq = <<>> THEN <<>>
    ELSE (IF Has(o, Head(seq)) THEN <<Head(seq)>> ELSE <<>>) \o OwnKeys(Tail(seq), o)

RECURSIVE StringifyClause(_)
StringifyClause(c) ==
    LET kind == OnlyKey(c)
    IN  IF kind = "bool"
        THEN Braces(<<Member("bool", Braces(<<Member("should",
                 Brackets([i \in 1..Len(c.bool.should.items) |->
                              StringifyClause(c.bool.should.items[i])]))>>))>>)
        ELSE LET key == OnlyKey(c[kind])
             IN  Braces(<<Member(kind, Braces(<<Member(key, QuoteChars(c[kind][key]))>>))>>)

StringifySortEntry(e) ==
    LET attribute == OnlyKey(e)
    IN  Braces(<<Member(attribute, Braces(<<Member("order", Quote(e[attribute].order))>>))>>)

\* a value that sits where an array is expected
StringifyClauses(x) ==
    IF x.type = "array" THEN Brackets([i \in 1..Len(x.items) |-> StringifyClause(x.items[i])])
    ELSE IF x.type = "null" THEN <<"null">>
    ELSE QuoteChars(x.chars)

StringifySort(x) ==
    IF x.type = "array" THEN Brackets([i \in 1..Len(x.items) |-> StringifySortEntry(x.items[i])])
    ELSE IF x.type = "null" THEN <<"null">>
    ELSE QuoteChars(x.chars)

StringifyBool(b) ==
    LET keys == OwnKeys(<<"should", "must", "minimum_should_match">>, b)
    IN  Braces([i \in 1..Len(keys) |->
                   Member(keys[i],
                          IF keys[i] = "minimum_should_match" THEN StringifyNumber(b[keys[i]])
                          ELSE StringifyClauses(b[keys[i]]))])

StringifyQuery(q) ==
    IF Has(q, "bool") THEN Braces(<<Member("bool", StringifyBool(q.bool))>>) ELSE Braces(<<>>)

Stringify(cell) ==
    Braces([i \in 1..Len(cell.order) |->
               LET key == cell.order[i]
               IN  Member(key,
                          IF key = "query" THEN StringifyQuery(cell.props.query)
                          ELSE IF key = "sort" THEN StringifySort(cell.props.sort)
                          ELSE StringifyNumber(cell.props[key]))])

toString(h, qo) == Ok(h, Stringify(h[qo]))

(***************************************************************************)
(* Documents a caller may hand to the constructor.                         *)
(***************************************************************************)
Bool(b) == [order |-> <<"query", "sort">>,
            props |-> ("query" :> ("bool" :> b) @@ "sort" :> Arr(<<>>))]

\* a document of the expected shape that already holds clauses and a size
PresetQueryObject ==
    [order |-> <<"query", "sort", "size">>,
     props |-> ("query" :> ("bool" :> ("should" :> Arr(<<Clause("term", "a", <<"x">>)>>)
                                       @@ "must" :> Arr(<<>>)
                                       @@ "minimum_should_match" :> 1))
                @@ "sort" :> Arr(<<SortEntry("rank", "asc")>>)
                @@ "size" :> 7)]

WellFormed == {PresetQueryObject}

\* documents that lack part of the expected structure
Malformed ==
    { [order |-> <<"sort">>, props |-> ("sort" :> Arr(<<>>))],
      [order |-> <<"query", "sort">>, props |-> ("query" :> <<>>) @@ "sort" :> Arr(<<>>)],
      Bool("must" :> Arr(<<>>)),
      Bool("should" :> JsNull @@ "must" :> Arr(<<>>)),
      Bool("should" :> Arr(<<>>)),
      Bool("should" :> Arr(<<>>) @@ "must" :> JsStr),
      [order |-> <<"query">>,
       props |-> ("query" :> ("bool" :> ("should" :> Arr(<<>>) @@ "must" :> Arr(<<>>))))],
      [order |-> <<"query", "sort">>,
       props |-> ("query" :> ("bool" :> ("should" :> Arr(<<>>) @@ "must" :> Arr(<<>>)))
                  @@ "sort" :> JsNull)] }

(***************************************************************************)
(* The state after new QueryBuilder(query), h being the caller's objects.  *)
(***************************************************************************)
Construct(h, query) ==
    LET c == constructor(h, query)
    IN  /\ heap = c.heap
        /\ queryObject = c.queryObject
        /\ arg = query
        /\ nCalls = 0
        /\ last = [op |-> "constructor", threw |-> FALSE]
        /\ pre = c.heap
        /\ shouldCalls = <<>>
        /\ mustCalls = <<>>
        /\ sortCalls = <<>>
        /\ minCalls = <<>>
        /\ sizeCalls = <<>>
        /\ fromCalls = <<>>
        /\ built = Undefined
        /\ shown = <<>>

Init ==
    \/ Construct(<<>>, Undefined)
    \/ \E d \in WellFormed : Construct((1 :> d), 1)

InitMalformed == \E d \in Malformed : Construct((1 :> d), 1)

(***************************************************************************)
(* One action per method. r is what the method does on the current heap.   *)
(***************************************************************************)
Invoke(call, r) ==
    /\ nCalls < MaxCalls
    /\ nCalls' = nCalls + 1
    /\ pre' = heap
    /\ heap' = r.heap
    /\ last' = call @@ [threw |-> r.threw]
    /\ UNCHANGED <<queryObject, arg>>

Log(log, call, r) == IF r.threw THEN log ELSE Append(log, call)

ShouldCall(call, r) ==
    /\ Invoke(call, r)
    /\ shouldCalls' = Log(shouldCalls, call, r)
    /\ UNCHANGED <<mustCalls, sortCalls, minCalls, sizeCalls, fromCalls, built, shown>>

MustCall(call, r) ==
    /\ Invoke(call, r)
    /\ mustCalls' = Log(mustCalls, call, r)
    /\ UNCHANGED <<shouldCalls, sortCalls, minCalls, sizeCalls, fromCalls, built, shown>>

KeyValue(op, key, value) == [op |-> op, key |-> key, value |-> value]

CallBuild ==
    LET r == build(heap, queryObject)
    IN  /\ Invoke([op |-> "build"], r)
        /\ built' = r.ret
        /\ UNCHANGED <<logs, shown>>

CallShouldPrefix ==
    \E kv \in KeyValues :
        ShouldCall(KeyValue("shouldPrefix", kv[1], kv[2]),
                   shouldPrefix(heap, queryObject, kv[1], kv[2]))

CallShouldTerm ==
    \E kv \in KeyValues :
        ShouldCall(KeyValue("shouldTerm", kv[1], kv[2]),
                   shouldTerm(heap, queryObject, kv[1], kv[2]))

CallShouldWildcard ==
    \E kv \in KeyValues :
        ShouldCall(KeyValue("shouldWildcard", kv[1], kv[2]),
                   shouldWildcard(heap, queryObject, kv[1], kv[2]))

CallShouldMatch ==
    \E kv \in KeyValues :
        ShouldCall(KeyValue("shouldMatch", kv[1], kv[2]),
                   shouldMatch(heap, queryObject, kv[1], kv[2]))

CallMustWildcard ==
    \E kv \in KeyValues :
        MustCall(KeyValue("mustWildcard", kv[1], kv[2]),
                 mustWildcard(heap, queryObject, kv[1], kv[2]))

CallMustMatch ==
    \E kv \in KeyValues :
        MustCall(KeyValue("mustMatch", kv[1], kv[2]),
                 mustMatch(heap, queryObject, kv[1], kv[2]))

CallMustShouldMatch ==
    \E terms \in TermLists :
        MustCall([op |-> "mustShouldMatch", terms |-> terms],
                 mustShouldMatch(heap, queryObject, terms))

CallMustTerm ==
    \E kv \in KeyValues :
        MustCall(KeyValue("mustTerm", kv[1], kv[2]),
                 mustTerm(heap, queryObject, kv[1], kv[2]))

CallOfType ==
    \E type \in Types :
        MustCall([op |-> "ofType", type |-> type], ofType(heap, queryObject, type))

CallMustPrefix ==
    \E kv \in KeyValues :
        MustCall(KeyValue("mustPrefix", kv[1], kv[2]),
                 mustPrefix(heap, queryObject, kv[1], kv[2]))

CallMinimumShouldMatch ==
    \E count \in Counts :
        LET call == [op |-> "minimumShouldMatch", count |-> count]
            r == minimumShouldMatch(heap, queryObject, count)
        IN  /\ Invoke(call, r)
            /\ minCalls' = Log(minCalls, call, r)
            /\ UNCHANGED <<shouldCalls, mustCalls, sortCalls, sizeCalls, fromCalls,
                           built, shown>>

CallSort ==
    \E sa \in SortArgs :
        LET call == [op |-> "sort", attribute |-> sa[1], dir |-> sa[2]]
            r == sort(heap, queryObject, sa[1], sa[2])
        IN  /\ Invoke(call, r)
            /\ sortCalls' = Log(sortCalls, call, r)
            /\ UNCHANGED <<shouldCalls, mustCalls, minCalls, sizeCalls, fromCalls,
                           built, shown>>

CallSize ==
    \E a \in OptArgs(Counts) :
        LET call == [op |-> "size", a |-> a]
            r == size(heap, queryObject, a)
        IN  /\ Invoke(call, r)
            /\ sizeCalls' = Log(sizeCalls, call, r)
            /\ UNCHANGED <<shouldCalls, mustCalls, sortCalls, minCalls, fromCalls,
                           built, shown>>

CallFrom ==
    \E a \in OptArgs(Counts) :
        LET call == [op |-> "from", a |-> a]
            r == from(heap, queryObject, a)
        IN  /\ Invoke(call, r)
            /\ fromCalls' = Log(fromCalls, call, r)
            /\ UNCHANGED <<shouldCalls, mustCalls, sortCalls, minCalls, sizeCalls,
                           built, shown>>

CallToString ==
    LET r == toString(heap, queryObject)
    IN  /\ Invoke([op |-> "toString"], r)
        /\ shown' = <<[ret |-> r.ret, at |-> r.heap[queryObject]]>>
        /\ UNCHANGED <<logs, built>>

Next ==
    \/ CallBuild
    \/ CallShouldPrefix
    \/ CallShouldTerm
    \/ CallShouldWildcard
    \/ CallShouldMatch
    \/ CallMustWildcard
    \/ CallMustMatch
    \/ CallMustShouldMatch
    \/ CallMustTerm
    \/ CallOfType
    \/ CallMustPrefix
    \/ CallMinimumShouldMatch
    \/ CallSort
    \/ CallSize
    \/ CallFrom
    \/ CallToString

Spec == Init /\ [][Next]_vars

\* a builder over a malformed document, followed for MaxCallsMalformed calls
Short == nCalls < MaxCallsMalformed

NextMalformed ==
    \/ Short /\ CallBuild
    \/ Short /\ CallShouldPrefix
    \/ Short /\ CallShouldTerm
    \/ Short /\ CallShouldWildcard
    \/ Short /\ CallShouldMatch
    \/ Short /\ CallMustWildcard
    \/ Short /\ CallMustMatch
    \/ Short /\ CallMustShouldMatch
    \/ Short /\ CallMustTerm
    \/ Short /\ CallOfType
    \/ Short /\ CallMustPrefix
    \/ Short /\ CallMinimumShouldMatch
    \/ Short /\ CallSort
    \/ Short /\ CallSize
    \/ Short /\ CallFrom
    \/ Short /\ CallToString

SpecMalformed == InitMalformed /\ [][NextMalformed]_vars

\* a chain of MaxCallsMutators mutator calls on a builder constructed
\* without a document
Chained == nCalls < MaxCallsMutators

NextMutators ==
    \/ Chained /\ CallShouldPrefix
    \/ Chained /\ CallShouldTerm
    \/ Chained /\ CallShouldWildcard
    \/ Chained /\ CallShouldMatch
    \/ Chained /\ CallMustWildcard
    \/ Chained /\ CallMustMatch
    \/ Chained /\ CallMustShouldMatch
    \/ Chained /\ CallMustTerm
    \/ Chained /\ CallOfType
    \/ Chained /\ CallMustPrefix
    \/ Chained /\ CallMinimumShouldMatch
    \/ Chained /\ CallSort
    \/ Chained /\ CallSize
    \/ Chained /\ CallFrom

InitMutators == Construct(<<>>, Undefined)

SpecMutators == InitMutators /\ [][NextMutators]_vars

(***************************************************************************)
(* The document and its parts, now and before the most recent call.        *)
(***************************************************************************)
Doc == heap[queryObject].props
PreDoc == pre[queryObject].props
Should == Doc.query.bool.should.items
Must == Doc.query.bool.must.items
SortList == Doc.sort.items
PreShould == PreDoc.query.bool.should.items
PreMust == PreDoc.query.bool.must.items
PreSortList == PreDoc.sort.items

\* the builder was constructed without a document
Fresh == arg = Undefined

ShouldOps == {"shouldPrefix", "shouldTerm", "shouldWildcard", "shouldMatch"}
MustOps == {"mustPrefix", "mustTerm", "mustWildcard", "mustMatch", "ofType",
            "mustShouldMatch"}
SetOps == {"minimumShouldMatch", "size", "from"}

\* the clause a call is to add
MatchOf(term) == ("match" :> (term.key :> term.value))

ClauseOf(call) ==
    CASE call.op \in {"shouldPrefix", "mustPrefix"} -> ("prefix" :> (call.key :> call.value))
      [] call.op \in {"shouldTerm", "mustTerm"} -> ("term" :> (call.key :> call.value))
      [] call.op \in {"shouldMatch", "mustMatch"} -> ("match" :> (call.key :> call.value))
      [] call.op \in {"shouldWildcard", "mustWildcard"} ->
            ("wildcard" :> (call.key :> (<<"*">> \o call.value \o <<"*">>)))
      [] call.op = "ofType" -> ("term" :> ("type" :> call.type))
      [] call.op = "mustShouldMatch" ->
            ("bool" :> ("should" :>
                [type |-> "array",
                 items |-> [i \in 1..Len(call.terms) |-> MatchOf(call.terms[i])]]))

ClausesOf(calls) == [i \in 1..Len(calls) |-> ClauseOf(calls[i])]

(***************************************************************************)
(* C1: on a builder constructed without a document no call throws, the     *)
(* length of should is the number of should* calls made and the length of  *)
(* must is the number of must*, ofType and mustShouldMatch calls made      *)
(* (mustShouldMatch counting one whatever its terms), and                  *)
(* minimumShouldMatch, sort, size and from change neither length.          *)
(***************************************************************************)
C1_Lengths ==
    Fresh =>
        /\ ~last.threw
        /\ Len(Should) = Len(shouldCalls)
        /\ Len(Must) = Len(mustCalls)
        /\ last.op \in SetOps \cup {"sort"} =>
              Len(Should) = Len(PreShould) /\ Len(Must) = Len(PreMust)

\* mustShouldMatch was called with no term and with two terms, and a sort
\* call followed
C1_Witness ==
    /\ Fresh
    /\ Len(mustCalls) = 2
    /\ \A i \in 1..2 : mustCalls[i].op = "mustShouldMatch"
    /\ mustCalls[1].terms = <<>>
    /\ Len(mustCalls[2].terms) = 2
    /\ last.op = "sort"
    /\ Len(Must) = 2

(***************************************************************************)
(* C2: on a builder constructed without a document, should is the list of  *)
(* the clauses of the calls that targeted should, in call order, and must  *)
(* is the list of the clauses of the calls that targeted must, in call     *)
(* order: nothing is reordered or left out as a duplicate, and a call that *)
(* targets something else changes neither list.                            *)
(***************************************************************************)
C2_Order ==
    Fresh =>
        /\ Should = ClausesOf(shouldCalls)
        /\ Must = ClausesOf(mustCalls)
        /\ last.op \notin ShouldOps => Should = PreShould
        /\ last.op \notin MustOps => Must = PreMust

\* the same shouldTerm call made twice, with a call on must made as well
C2_Witness ==
    /\ Fresh
    /\ Len(shouldCalls) = 2
    /\ shouldCalls[1].op = "shouldTerm"
    /\ shouldCalls[2] = shouldCalls[1]
    /\ Len(mustCalls) = 1
    /\ last.op = "shouldTerm"
    /\ Should[1] = Should[2]

(***************************************************************************)
(* C3: a mustShouldMatch(terms) call appends to must exactly one element,  *)
(* {bool: {should: S}}, S holding {match: {key: value}} for every term in  *)
(* input order (S is empty when terms is), and leaves should as it was.    *)
(***************************************************************************)
C3_Nested ==
    (last.op = "mustShouldMatch" /\ ~last.threw) =>
        LET new == Must[Len(Must)]
            S == new.bool.should.items
        IN  /\ Len(Must) = Len(PreMust) + 1
            /\ SubSeq(Must, 1, Len(PreMust)) = PreMust
            /\ DOMAIN new = {"bool"}
            /\ DOMAIN new.bool = {"should"}
            /\ new.bool.should.type = "array"
            /\ Len(S) = Len(last.terms)
            /\ \A i \in 1..Len(S) : S[i] = MatchOf(last.terms[i])
            /\ Should = PreShould

\* a call with two terms, then a call with none
C3_Witness ==
    /\ last.op = "mustShouldMatch"
    /\ ~last.threw
    /\ last.terms = <<>>
    /\ Len(mustCalls) = 2
    /\ mustCalls[1].op = "mustShouldMatch"
    /\ Len(mustCalls[1].terms) = 2
    /\ Len(Must[1].bool.should.items) = 2
    /\ Must[2].bool.should.items = <<>>

(***************************************************************************)
(* C4: shouldWildcard(key, value) appends {wildcard: {key: "*"+value+"*"}} *)
(* to should and mustWildcard appends the same clause to must, whatever    *)
(* the value (so "*x*" is stored as "**x**"); the prefix, term and match   *)
(* calls and ofType store the value they are given.                        *)
(***************************************************************************)
Wrapped(value) == <<"*">> \o value \o <<"*">>

\* the value held by a single-key clause {kind: {key: value}}
ValueIn(clause, kind, key) == clause[kind][key]

KindOf(op) ==
    CASE op \in {"shouldPrefix", "mustPrefix"} -> "prefix"
      [] op \in {"shouldTerm", "mustTerm"} -> "term"
      [] op \in {"shouldMatch", "mustMatch"} -> "match"

C4_Wildcard ==
    ~last.threw =>
        /\ last.op = "shouldWildcard" =>
              /\ Should = Append(PreShould, ("wildcard" :> (last.key :> Wrapped(last.value))))
              /\ Must = PreMust
        /\ last.op = "mustWildcard" =>
              /\ Must = Append(PreMust, ("wildcard" :> (last.key :> Wrapped(last.value))))
              /\ Should = PreShould
        /\ (last.op = "mustWildcard" /\ last.value = <<"*", "x", "*">>) =>
              ValueIn(Must[Len(Must)], "wildcard", last.key) = <<"*", "*", "x", "*", "*">>
        /\ (last.op = "shouldWildcard" /\ last.value = <<"*", "x", "*">>) =>
              ValueIn(Should[Len(Should)], "wildcard", last.key) = <<"*", "*", "x", "*", "*">>
        /\ last.op \in {"shouldPrefix", "shouldTerm", "shouldMatch"} =>
              ValueIn(Should[Len(Should)], KindOf(last.op), last.key) = last.value
        /\ last.op \in {"mustPrefix", "mustTerm", "mustMatch"} =>
              ValueIn(Must[Len(Must)], KindOf(last.op), last.key) = last.value
        /\ last.op = "ofType" => ValueIn(Must[Len(Must)], "term", "type") = last.type

\* both wildcard calls made, the second with a value that is already wrapped
C4_Witness ==
    /\ last.op = "mustWildcard"
    /\ ~last.threw
    /\ last.value = <<"*", "x", "*">>
    /\ shouldCalls # <<>>
    /\ shouldCalls[Len(shouldCalls)].op = "shouldWildcard"
    /\ shouldCalls[Len(shouldCalls)].value = <<"x">>
    /\ ValueIn(Should[Len(Should)], "wildcard", "a") = <<"*", "x", "*">>
    /\ ValueIn(Must[Len(Must)], "wildcard", "type") = <<"*", "*", "x", "*", "*">>

(***************************************************************************)
(* C5: query.bool.minimum_should_match, size and from hold the argument of *)
(* the most recent minimumShouldMatch, size and from call (20 and 0 when   *)
(* size and from are called without one), as given, zero and negative      *)
(* values too; each is one own key of the document, written once, and a    *)
(* call of the three changes nothing but its own key.                      *)
(***************************************************************************)
Given(a, default) == IF a = <<>> THEN default ELSE a[1]

Occurrences(seq, x) == Cardinality({i \in 1..Len(seq) : seq[i] = x})

C5_Overwrite ==
    /\ minCalls # <<>> =>
          Doc.query.bool.minimum_should_match = minCalls[Len(minCalls)].count
    /\ sizeCalls # <<>> => Doc.size = Given(sizeCalls[Len(sizeCalls)].a, 20)
    /\ fromCalls # <<>> => Doc.from = Given(fromCalls[Len(fromCalls)].a, 0)
    /\ DOMAIN Doc \subseteq {"query", "sort", "size", "from"}
    /\ DOMAIN Doc.query = {"bool"}
    /\ DOMAIN Doc.query.bool \subseteq {"should", "must", "minimum_should_match"}
    /\ \A key \in DOMAIN Doc : Occurrences(heap[queryObject].order, key) = 1
    /\ last.op \in SetOps =>
          /\ Should = PreShould
          /\ Must = PreMust
          /\ SortList = PreSortList
          /\ \A key \in DOMAIN PreDoc \ {"query", last.op} : Doc[key] = PreDoc[key]
          /\ \A key \in DOMAIN PreDoc.query.bool \ {"minimum_should_match"} :
                Doc.query.bool[key] = PreDoc.query.bool[key]

\* size called with 0 and then with -1, after minimumShouldMatch(0)
C5_Witness ==
    /\ Len(sizeCalls) = 2
    /\ sizeCalls[1].a = <<0>>
    /\ sizeCalls[2].a = <<-1>>
    /\ Doc.size = -1
    /\ Len(minCalls) = 1
    /\ Doc.query.bool.minimum_should_match = 0
    /\ last.op = "size"

(***************************************************************************)
(* C6: sort(attribute, direction) appends {attribute: {order: direction}}  *)
(* to the end of the sort list, direction being "desc" when it is omitted; *)
(* on a builder constructed without a document the sort list holds one     *)
(* entry per sort call, in call order, the same attribute any number of    *)
(* times; no other call changes the sort list.                             *)
(***************************************************************************)
EntryOf(call) == (call.attribute :> ("order" :> Given(call.dir, "desc")))

C7_Identity ==
    /\ DOMAIN heap = {queryObject}
    /\ arg # Undefined => queryObject = arg
    /\ built # Undefined => built = queryObject /\ heap[built] = heap[queryObject]
    /\ last.op = "build" => heap = pre /\ built = queryObject
    /\ last.op = "toString" =>
          /\ heap = pre
          /\ shown[1].at = heap[queryObject]
          /\ shown[1].ret = Stringify(heap[queryObject])
    /\ (shown # <<>> /\ shown[1].at # heap[queryObject]) =>
          toString(heap, queryObject).ret # shown[1].ret

\* build() and toString() on a supplied document, then a call that changes it
C7_Witness ==
    /\ arg # Undefined
    /\ built = arg
    /\ shown # <<>>
    /\ shown[1].at = pre[queryObject]
    /\ last.op \in ShouldOps \cup MustOps \cup SetOps \cup {"sort"}
    /\ heap[built] # pre[built]
    /\ toString(heap, queryObject).ret # shown[1].ret

(***************************************************************************)
(* C8: a builder constructed without a document starts with should, must   *)
(* and sort empty and with no size, from or minimum_should_match, its      *)
(* toString() being {"query":{"bool":{"should":[],"must":[]}},"sort":[]};  *)
(* from then on size is present iff size() was called, from iff from()     *)
(* was, minimum_should_match iff minimumShouldMatch() was.                 *)
(***************************************************************************)
EmptyText ==
    <<"{", "\"", "query", "\"", ":",
           "{", "\"", "bool", "\"", ":",
                "{", "\"", "should", "\"", ":", "[", "]", ",",
                     "\"", "must", "\"", ":", "[", "]", "}", "}", ",",
           "\"", "sort", "\"", ":", "[", "]", "}">>

C8_Fresh ==
    Fresh =>
        /\ nCalls = 0 =>
              /\ Should = <<>>
              /\ Must = <<>>
              /\ SortList = <<>>
              /\ DOMAIN Doc = {"query", "sort"}
              /\ DOMAIN Doc.query.bool = {"should", "must"}
              /\ toString(heap, queryObject).ret = EmptyText
        /\ (nCalls = 1 /\ last.op = "toString") => shown[1].ret = EmptyText
        /\ Has(Doc, "size") <=> sizeCalls # <<>>
        /\ Has(Doc, "from") <=> fromCalls # <<>>
        /\ Has(Doc.query.bool, "minimum_should_match") <=> minCalls # <<>>

\* size() and minimumShouldMatch() called, from() not
C8_Witness ==
    /\ Fresh
    /\ sizeCalls # <<>>
    /\ minCalls # <<>>
    /\ fromCalls = <<>>
    /\ DOMAIN Doc = {"query", "sort", "size"}
    /\ DOMAIN Doc.query.bool = {"should", "must", "minimum_should_match"}
    /\ shown # <<>>
    /\ shown[1].ret = EmptyText

(***************************************************************************)
(* C9: should and must are arrays in every state (never null), empty in a  *)
(* builder constructed without a document, and every call leaves what they *)
(* held as a prefix of what they hold: nothing is removed, replaced or     *)
(* reordered.                                                              *)
(***************************************************************************)
IsPrefix(s, t) == Len(s) <= Len(t) /\ SubSeq(t, 1, Len(s)) = s

C9_Grow ==
    /\ (Fresh /\ nCalls = 0) => Should = <<>> /\ Must = <<>>
    /\ Has(Doc, "query") /\ Has(Doc.query, "bool")
    /\ Has(Doc.query.bool, "should") /\ Doc.query.bool.should.type = "array"
    /\ Has(Doc.query.bool, "must") /\ Doc.query.bool.must.type = "array"
    /\ IsPrefix(PreShould, Should)
    /\ IsPrefix(PreMust, Must)

\* a second clause pushed to must, should holding clauses as well
C9_Witness ==
    /\ last.op = "mustTerm"
    /\ Len(PreMust) = 1
    /\ Len(Must) = 2
    /\ Must[1] = PreMust[1]
    /\ Len(Should) = 2
    /\ arg # Undefined

(***************************************************************************)
(* C10: over a document that lacks part of the expected structure the      *)
(* constructor does not fail and keeps the document as it is; a call       *)
(* throws exactly when it dereferences what is missing (should* a missing  *)
(* should, must*, ofType and mustShouldMatch a missing must, sort a        *)
(* missing sort, minimumShouldMatch a missing query.bool; missing or no    *)
(* array), whatever was called before; a call that throws leaves the       *)
(* document as it was, and a call that returns has its whole effect.       *)
(***************************************************************************)
IsList(o, key) == Has(o, key) /\ o[key].type = "array"

HasBool(doc) == Has(doc, "query") /\ Has(doc.query, "bool")

Dereferences(op, doc) ==
    CASE op \in ShouldOps -> ~(HasBool(doc) /\ IsList(doc.query.bool, "should"))
      [] op \in MustOps -> ~(HasBool(doc) /\ IsList(doc.query.bool, "must"))
      [] op = "sort" -> ~IsList(doc, "sort")
      [] op = "minimumShouldMatch" -> ~HasBool(doc)
      [] OTHER -> FALSE

C10_FailFast ==
    /\ last.op = "constructor" =>
          ~last.threw /\ queryObject = arg /\ heap[queryObject] \in Malformed
    /\ last.op # "constructor" => (last.threw <=> Dereferences(last.op, PreDoc))
    /\ last.threw => heap = pre
    /\ (~last.threw /\ last.op \in ShouldOps) =>
          Doc.query.bool.should.items = Append(PreShould, ClauseOf(last))
    /\ (~last.threw /\ last.op \in MustOps) =>
          Doc.query.bool.must.items = Append(PreMust, ClauseOf(last))
    /\ (~last.threw /\ last.op = "sort") =>
          Doc.sort.items = Append(PreSortList, EntryOf(last))
    /\ (~last.threw /\ last.op = "minimumShouldMatch") =>
          Doc.query.bool.minimum_should_match = last.count
    /\ last.op = "size" => Doc.size = Given(last.a, 20)
    /\ last.op = "from" => Doc.from = Given(last.a, 0)

\* on a document without should: a must call returned, then a should call threw
C10_Witness ==
    /\ HasBool(Doc)
    /\ ~IsList(Doc.query.bool, "should")
    /\ Len(mustCalls) = 1
    /\ Len(Must) = 1
    /\ last.op = "shouldMatch"
    /\ last.threw
    /\ heap = pre

(***************************************************************************)
(* C11: the calls of a chain, made again in another order on a new         *)
(* builder.                                                                *)
(***************************************************************************)
\* the heap after one more call on the builder whose document is qo
Apply(h, qo, call) ==
    CASE call.op = "shouldPrefix" -> shouldPrefix(h, qo, call.key, call.value).heap
      [] call.op = "shouldTerm" -> shouldTerm(h, qo, call.key, call.value).heap
      [] call.op = "shouldWildcard" -> shouldWildcard(h, qo, call.key, call.value).heap
      [] call.op = "shouldMatch" -> shouldMatch(h, qo, call.key, call.value).heap
      [] call.op = "mustWildcard" -> mustWildcard(h, qo, call.key, call.value).heap
      [] call.op = "mustMatch" -> mustMatch(h, qo, call.key, call.value).heap
      [] call.op = "mustShouldMatch" -> mustShouldMatch(h, qo, call.terms).heap
      [] call.op = "mustTerm" -> mustTerm(h, qo, call.key, call.value).heap
      [] call.op = "ofType" -> ofType(h, qo, call.type).heap
      [] call.op = "mustPrefix" -> mustPrefix(h, qo, call.key, call.value).heap
      [] call.op = "minimumShouldMatch" -> minimumShouldMatch(h, qo, call.count).heap
      [] call.op = "sort" -> sort(h, qo, call.attribute, call.dir).heap
      [] call.op = "size" -> size(h, qo, call.a).heap
      [] call.op = "from" -> from(h, qo, call.a).heap

\* queues is a sequence of call sequences. Every order of all their calls
\* that keeps each queue's own order, made on the document qo of heap h,
\* ends with the content doc.
RECURSIVE EveryOrderGives(_, _, _, _)
EveryOrderGives(doc, h, qo, queues) ==
    IF \A i \in 1..Len(queues) : queues[i] = <<>>
    THEN h[qo].props = doc
    ELSE \A i \in 1..Len(queues) :
            queues[i] # <<>> =>
                EveryOrderGives(doc, Apply(h, qo, Head(queues[i])), qo,
                                [queues EXCEPT ![i] = Tail(@)])

\* each call of calls as a queue of its own: free to move
Singly(calls) == [i \in 1..Len(calls) |-> <<calls[i]>>]

\* a builder constructed as the one of the chain was: without a document
NewBuilder == constructor(<<>>, Undefined)

\* C11 as claimed: every reordering of the calls made that keeps the relative
\* order of the calls appending to should, to must and to sort, the
\* minimumShouldMatch, size and from calls moving freely, ends with the same
\* document content as the calls in the order they were made.
C11_AnyOrderOfSets ==
    EveryOrderGives(Doc, NewBuilder.heap, NewBuilder.queryObject,
                    <<shouldCalls, mustCalls, sortCalls>>
                        \o Singly(minCalls) \o Singly(sizeCalls) \o Singly(fromCalls))

\* C11 as amended: every reordering of the calls made that keeps the
\* relative order of the calls appending to should, to must and to sort and
\* the relative order of the calls of each of minimumShouldMatch, size and
\* from ends with the same document content (the same keys with the same
\* values) as the calls in the order they were made.
C11_OrderPerTarget ==
    EveryOrderGives(Doc, NewBuilder.heap, NewBuilder.queryObject,
                    <<shouldCalls, mustCalls, sortCalls, minCalls, sizeCalls, fromCalls>>)

\* size called twice with different arguments and from called once: the
\* document holds the later size and the offset
C11_Witness ==
    /\ Fresh
    /\ Len(sizeCalls) = 2
    /\ sizeCalls[1].a # sizeCalls[2].a
    /\ Len(fromCalls) = 1
    /\ Doc.size = Given(sizeCalls[2].a, DefaultSize)
    /\ Doc.from = Given(fromCalls[1].a, DefaultFrom)

====
